---- MODULE Spec2Model ----
(***************************************************************************)
(* braillert: the command-line entry point main() of                       *)
(* src/src/braillert/main.py, wrapped by _exception_handler, as a state    *)
(* machine.  One action per statement group of main(); the calls main()    *)
(* makes to its collaborators (PIL, Generator, open/write, the mode's      *)
(* printer, sleep) are recorded, in order, in the history variable calls.  *)
(* Every collaborator call may raise; a KeyboardInterrupt may arrive at    *)
(* any point of main().                                                    *)
(***************************************************************************)
EXTENDS Integers, Sequences, FiniteSets, TLC

\* ---- bounds of the model ----
MaxWidth  == 3      \* largest --width value tried
MaxDim    == 3      \* largest width/height of the decoded source image
MaxFrames == 2      \* largest number of frames of an animation
MaxPasses == 2      \* passes over the frames explored under --repeat
MaxDelay  == 1      \* largest frame delay tried

\* ---- program constants ----
DefaultWidth == 100

\* An optional value is <<>> (Python None) or <<v>>.
NoValue == <<>>

Some(v) == <<v>>

\* Python truthiness of an optional int argument: None and 0 are falsy.
TruthyInt(opt) == opt # NoValue /\ opt[1] # 0

\* Python truthiness of an optional str argument: None and "" are falsy.
TruthyStr(opt) == opt # NoValue /\ opt[1] # ""

\* int(x) of the float num / den (den > 0): truncation towards zero.
IntTrunc(num, den) == IF num >= 0 THEN num \div den ELSE -((-num) \div den)

Modes == {"rich", "colorama", "discord", "gs"}

\* palettes[mode].printer
Printer(mode) == IF mode = "rich" THEN "Console.print" ELSE "print"

Widths == {NoValue} \cup {Some(w) : w \in -1..MaxWidth}

Outs == {NoValue, Some(""), Some("art.ansi")}

Arguments == [mode : Modes, width : Widths, out : Outs, gif : BOOLEAN,
              repeat : BOOLEAN, disable_logging : BOOLEAN]

VARIABLES
    arguments,    \* the parsed command line
    pc,           \* position in main() / the wrapper
    loggerLevel,  \* "INFO" or "ERROR"
    banner,       \* TRUE once logo, author line and delimiter are printed
    image,        \* NoValue or <<W, H>> of the current image object
    generator,    \* TRUE once Generator(...) is constructed
    art,          \* NoValue or <<Art>>
    animation,    \* NoValue or <<[frames, frame_delay]>>
    frameIdx,     \* index of the next frame of the for loop
    passes,       \* completed passes of the while loop
    calls,        \* history: collaborator calls, in order
    log,          \* history: records the logger has emitted
    outFile,      \* NoValue (never opened), <<"opened">> or <<"written", art>>
    raised        \* <<kind, str(error)>> of the exception raised, or NoError

vars == <<arguments, pc, loggerLevel, banner, image, generator, art,
          animation, frameIdx, passes, calls, log, outFile, raised>>

\* ---- the logger ----
\* logger.<level>(msg): emitted unless the level is below the logger's level.
Emits(level, lvl) == lvl = "INFO" \/ level = "ERROR"

Logged(l, level, msg, lvl) ==
    IF Emits(level, lvl) THEN Append(l, <<level, msg>>) ELSE l

\* Variant of CellOrigins: a partial cell at the edge is dropped.
CellOriginsWholeOnly(n, step) == {k \in 0..(n - 1) : k % step = 0 /\ k + step <= n}

\* ---- the Art Assembler ----
\* range(0, n, step)
CellOrigins(n, step) == {k \in 0..(n - 1) : k % step = 0}

\* Generator.generate_art(): one glyph per 2x4 cell, row-major.
GenerateArtOf(W, H) ==
    [r \in 1..Cardinality(CellOrigins(H, 4)) |->
        [c \in 1..Cardinality(CellOrigins(W, 2)) |-> <<r, c>>]]

\* ---- raising ----
NoError == <<"none", "">>

\* raise: control leaves main() for the except clauses of the wrapper.
Raise(kind, msg) == pc' = "handler" /\ raised' = <<kind, msg>>

Init ==
    /\ arguments \in Arguments
    /\ pc = "logging"
    /\ loggerLevel = "INFO"
    /\ banner = FALSE
    /\ image = NoValue
    /\ generator = FALSE
    /\ art = NoValue
    /\ animation = NoValue
    /\ frameIdx = 1
    /\ passes = 0
    /\ calls = <<>>
    /\ log = <<>>
    /\ outFile = NoValue
    /\ raised = NoError

\* main.py 161-168
SetupLogging ==
    /\ pc = "logging"
    /\ IF arguments.disable_logging
         THEN /\ loggerLevel' = "ERROR"
              /\ banner' = banner
         ELSE /\ loggerLevel' = loggerLevel
              /\ banner' = TRUE
    /\ log' = Logged(log, "INFO", "Generating...", loggerLevel')
    /\ pc' = "open"
    /\ UNCHANGED <<arguments, image, generator, art, animation, frameIdx,
                   passes, calls, outFile, raised>>

\* main.py 169: image = Image.open(arguments.file_path)
OpenImage ==
    /\ pc = "open"
    /\ calls' = Append(calls, <<"Image.open">>)
    /\ \/ /\ Raise("Exception", "cannot identify image file")
          /\ image' = image
       \/ /\ \E W \in 1..MaxDim, H \in 1..MaxDim : image' = Some(<<W, H>>)
          /\ pc' = "resize"
          /\ raised' = raised
    /\ UNCHANGED <<arguments, loggerLevel, banner, generator, art, animation,
                   frameIdx, passes, log, outFile>>

\* main.py 114-120: the size _resize_portrait asks of image.resize
ResizeTarget(size, width) ==
    LET w == IF ~TruthyInt(width) THEN DefaultWidth ELSE width[1]
    IN  <<w, IntTrunc(size[2] * w, size[1])>>

\* Variant of Resize: the image is resized whatever the --gif flag says.
ResizeIgnoresGif ==
    /\ pc = "resize"
    /\ LET target == ResizeTarget(image[1], arguments.width)
       IN  /\ calls' = Append(calls, <<"resize", target>>)
           /\ \/ /\ Raise("Exception", "resize failed")
                 /\ image' = image
              \/ /\ target[1] >= 1 /\ target[2] >= 1
                 /\ image' = Some(target)
                 /\ pc' = "construct"
                 /\ raised' = raised
    /\ UNCHANGED <<arguments, loggerLevel, banner, generator, art, animation,
                   frameIdx, passes, log, outFile>>

\* main.py 170-171: if not arguments.gif: image = _resize_portrait(...)
Resize ==
    /\ pc = "resize"
    /\ IF arguments.gif
         THEN /\ pc' = "construct"
              /\ UNCHANGED <<image, calls, raised>>
         ELSE LET target == ResizeTarget(image[1], arguments.width)
              IN  /\ calls' = Append(calls, <<"resize", target>>)
                  /\ \/ /\ Raise("Exception", "resize failed")
                        /\ image' = image
                     \/ /\ target[1] >= 1 /\ target[2] >= 1
                        /\ image' = Some(target)
                        /\ pc' = "construct"
                        /\ raised' = raised
    /\ UNCHANGED <<arguments, loggerLevel, banner, generator, art, animation,
                   frameIdx, passes, log, outFile>>

\* main.py 173-174: generator = Generator(image, palette, resetter, threshold)
ConstructGenerator ==
    /\ pc = "construct"
    /\ calls' = Append(calls, <<"Generator", image[1]>>)
    /\ \/ /\ Raise("Exception", "generator construction failed")
          /\ generator' = generator
       \/ /\ generator' = TRUE
          /\ pc' = "convert"
          /\ raised' = raised
    /\ UNCHANGED <<arguments, loggerLevel, banner, image, art, animation,
                   frameIdx, passes, log, outFile>>

\* main.py 176-178: if arguments.gif: if arguments.width: raise ...
RaiseUnsupportedResize ==
    /\ pc = "convert"
    /\ arguments.gif
    /\ TruthyInt(arguments.width)
    /\ Raise("GifUnsupportedResizeError", "")
    /\ UNCHANGED <<arguments, loggerLevel, banner, image, generator, art,
                   animation, frameIdx, passes, calls, log, outFile>>

\* main.py 179-180: if arguments.out: raise GifUnsupportedSaveError
RaiseUnsupportedSave ==
    /\ pc = "convert"
    /\ arguments.gif
    /\ ~TruthyInt(arguments.width)
    /\ TruthyStr(arguments.out)
    /\ Raise("GifUnsupportedSaveError", "")
    /\ UNCHANGED <<arguments, loggerLevel, banner, image, generator, art,
                   animation, frameIdx, passes, calls, log, outFile>>

\* Generator.generate_gif_frames(): one Art per frame at source size, one delay.
AnimationOf(size, n, delay) ==
    [frames |-> [k \in 1..n |-> <<k, GenerateArtOf(size[1], size[2])>>],
     frame_delay |-> delay]

\* Variant of GenerateGifFrames: the test of arguments.out is missing.
GenerateGifFramesNoSaveCheck ==
    /\ pc = "convert"
    /\ arguments.gif
    /\ ~TruthyInt(arguments.width)
    /\ calls' = Append(calls, <<"generate_gif_frames">>)
    /\ \/ /\ Raise("Exception", "frame generation failed")
          /\ animation' = animation
       \/ /\ \E n \in 1..MaxFrames, d \in 0..MaxDelay :
                animation' = Some(AnimationOf(image[1], n, d))
          /\ pc' = "generated"
          /\ raised' = raised
    /\ UNCHANGED <<arguments, loggerLevel, banner, image, generator, art,
                   frameIdx, passes, log, outFile>>

\* main.py 181: animation = generator.generate_gif_frames()
GenerateGifFrames ==
    /\ pc = "convert"
    /\ arguments.gif
    /\ ~TruthyInt(arguments.width)
    /\ ~TruthyStr(arguments.out)
    /\ calls' = Append(calls, <<"generate_gif_frames">>)
    /\ \/ /\ Raise("Exception", "frame generation failed")
          /\ animation' = animation
       \/ /\ \E n \in 1..MaxFrames, d \in 0..MaxDelay :
                animation' = Some(AnimationOf(image[1], n, d))
          /\ pc' = "generated"
          /\ raised' = raised
    /\ UNCHANGED <<arguments, loggerLevel, banner, image, generator, art,
                   frameIdx, passes, log, outFile>>

\* Variant of GenerateArt: the output file is opened before the art exists.
GenerateArtOpensFileFirst ==
    /\ pc = "convert"
    /\ ~arguments.gif
    /\ calls' = Append(calls, <<"generate_art">>)
    /\ outFile' = IF TruthyStr(arguments.out) THEN <<"opened">> ELSE outFile
    /\ \/ /\ Raise("Exception", "art generation failed")
          /\ art' = art
       \/ /\ art' = Some(GenerateArtOf(image[1][1], image[1][2]))
          /\ pc' = "generated"
          /\ raised' = raised
    /\ UNCHANGED <<arguments, loggerLevel, banner, image, generator,
                   animation, frameIdx, passes, log>>

\* main.py 182-183: else: art = generator.generate_art()
GenerateArt ==
    /\ pc = "convert"
    /\ ~arguments.gif
    /\ calls' = Append(calls, <<"generate_art">>)
    /\ \/ /\ Raise("Exception", "art generation failed")
          /\ art' = art
       \/ /\ art' = Some(GenerateArtOf(image[1][1], image[1][2]))
          /\ pc' = "generated"
          /\ raised' = raised
    /\ UNCHANGED <<arguments, loggerLevel, banner, image, generator,
                   animation, frameIdx, passes, log, outFile>>

\* Variant of LogGenerated: the art is printed whether or not --out is given.
LogGeneratedAlsoPrints ==
    /\ pc = "generated"
    /\ log' = Logged(log, "SUCCESS", "Generated!", loggerLevel)
    /\ pc' = IF arguments.gif THEN "play" ELSE "print"
    /\ UNCHANGED <<arguments, loggerLevel, banner, image, generator, art,
                   animation, frameIdx, passes, calls, outFile, raised>>

\* main.py 185-186, 190-191, 198: logger.success, then the choice of the sink
LogGenerated ==
    /\ pc = "generated"
    /\ log' = Logged(log, "SUCCESS", "Generated!", loggerLevel)
    /\ pc' = IF TruthyStr(arguments.out) THEN "save"
             ELSE IF arguments.gif THEN "play" ELSE "print"
    /\ UNCHANGED <<arguments, loggerLevel, banner, image, generator, art,
                   animation, frameIdx, passes, calls, outFile, raised>>

\* main.py 187: with open(arguments.out, "w", encoding="utf-8") as out_file
OpenOutFile ==
    /\ pc = "save"
    /\ calls' = Append(calls, <<"open", arguments.out[1]>>)
    /\ \/ /\ Raise("Exception", "cannot open output file")
          /\ outFile' = outFile
       \/ /\ outFile' = <<"opened">>
          /\ pc' = "write"
          /\ raised' = raised
    /\ UNCHANGED <<arguments, loggerLevel, banner, image, generator, art,
                   animation, frameIdx, passes, log>>

\* main.py 188: out_file.write(art), then the with block closes the file
WriteArt ==
    /\ pc = "write"
    /\ IF art = NoValue
         THEN /\ Raise("Exception", "local variable 'art' referenced before assignment")
              /\ UNCHANGED <<calls, outFile>>
         ELSE /\ calls' = Append(calls, <<"write", art[1]>>)
              /\ \/ /\ Raise("Exception", "write failed")
                    /\ outFile' = outFile
                 \/ /\ outFile' = <<"written", art[1]>>
                    /\ pc' = "saved"
                    /\ raised' = raised
    /\ UNCHANGED <<arguments, loggerLevel, banner, image, generator, art,
                   animation, frameIdx, passes, log>>

\* main.py 189: logger.info("Saved to -> %s", arguments.out)
LogSaved ==
    /\ pc = "saved"
    /\ log' = Logged(log, "INFO", "Saved to -> " \o arguments.out[1], loggerLevel)
    /\ pc' = "done"
    /\ UNCHANGED <<arguments, loggerLevel, banner, image, generator, art,
                   animation, frameIdx, passes, calls, outFile, raised>>

\* main.py 193-194: for frame in animation.frames: mode.printer(frame)
PrintFrame ==
    /\ pc = "play"
    /\ frameIdx <= Len(animation[1].frames)
    /\ calls' = Append(calls, <<"printer", Printer(arguments.mode),
                                animation[1].frames[frameIdx]>>)
    /\ \/ Raise("Exception", "printer failed")
       \/ /\ pc' = "sleep"
          /\ raised' = raised
    /\ UNCHANGED <<arguments, loggerLevel, banner, image, generator, art,
                   animation, frameIdx, passes, log, outFile>>

\* main.py 195: sleep(animation.frame_delay), then the next frame
SleepFrame ==
    /\ pc = "sleep"
    /\ calls' = Append(calls, <<"sleep", animation[1].frame_delay>>)
    /\ frameIdx' = frameIdx + 1
    /\ pc' = "play"
    /\ UNCHANGED <<arguments, loggerLevel, banner, image, generator, art,
                   animation, passes, log, outFile, raised>>

\* Variant of EndPass: the test of arguments.repeat is inverted.
EndPassInverted ==
    /\ pc = "play"
    /\ frameIdx > Len(animation[1].frames)
    /\ IF arguments.repeat
         THEN /\ pc' = "done"
              /\ UNCHANGED <<frameIdx, passes>>
         ELSE /\ passes + 1 < MaxPasses
              /\ passes' = passes + 1
              /\ frameIdx' = 1
              /\ pc' = "play"
    /\ UNCHANGED <<arguments, loggerLevel, banner, image, generator, art,
                   animation, calls, log, outFile, raised>>

\* main.py 192, 196-197: the for loop is exhausted; break unless --repeat
EndPass ==
    /\ pc = "play"
    /\ frameIdx > Len(animation[1].frames)
    /\ IF ~arguments.repeat
         THEN /\ pc' = "done"
              /\ UNCHANGED <<frameIdx, passes>>
         ELSE /\ passes + 1 < MaxPasses
              /\ passes' = passes + 1
              /\ frameIdx' = 1
              /\ pc' = "play"
    /\ UNCHANGED <<arguments, loggerLevel, banner, image, generator, art,
                   animation, calls, log, outFile, raised>>

\* main.py 198-199: else: mode.printer(art)
PrintArt ==
    /\ pc = "print"
    /\ calls' = Append(calls, <<"printer", Printer(arguments.mode), art[1]>>)
    /\ \/ Raise("Exception", "printer failed")
       \/ /\ pc' = "done"
          /\ raised' = raised
    /\ UNCHANGED <<arguments, loggerLevel, banner, image, generator, art,
                   animation, frameIdx, passes, log, outFile>>

\* Ctrl-C: KeyboardInterrupt is raised at the statement main() is executing.
Interrupt ==
    /\ pc \notin {"handler", "done"}
    /\ Raise("KeyboardInterrupt", "")
    /\ UNCHANGED <<arguments, loggerLevel, banner, image, generator, art,
                   animation, frameIdx, passes, calls, log, outFile>>

\* Variant of Wrapper: no except KeyboardInterrupt clause before the catch-all.
WrapperNoInterruptClause ==
    /\ pc = "handler"
    /\ log' = CASE raised[1] = "GifUnsupportedResizeError" ->
                     Logged(log, "ERROR", "Error! Gif resizing is not supported.",
                            loggerLevel)
                [] raised[1] = "GifUnsupportedSaveError" ->
                     Logged(log, "ERROR", "Error! Gif arts saving is not supported.",
                            loggerLevel)
                [] OTHER ->
                     Logged(Logged(log, "ERROR", "Error! Unexpected exception caught:",
                                   loggerLevel),
                            "INFO", raised[2], loggerLevel)
    /\ pc' = "done"
    /\ UNCHANGED <<arguments, loggerLevel, banner, image, generator, art,
                   animation, frameIdx, passes, calls, outFile, raised>>

\* main.py 122-137: the except clauses of _exception_handler's wrapper
Wrapper ==
    /\ pc = "handler"
    /\ log' = CASE raised[1] = "GifUnsupportedResizeError" ->
                     Logged(log, "ERROR", "Error! Gif resizing is not supported.",
                            loggerLevel)
                [] raised[1] = "GifUnsupportedSaveError" ->
                     Logged(log, "ERROR", "Error! Gif arts saving is not supported.",
                            loggerLevel)
                [] raised[1] = "KeyboardInterrupt" -> log
                [] OTHER ->
                     Logged(Logged(log, "ERROR", "Error! Unexpected exception caught:",
                                   loggerLevel),
                            "INFO", raised[2], loggerLevel)
    /\ pc' = "done"
    /\ UNCHANGED <<arguments, loggerLevel, banner, image, generator, art,
                   animation, frameIdx, passes, calls, outFile, raised>>

Next ==
    \/ SetupLogging
    \/ OpenImage
    \/ Resize
    \/ ConstructGenerator
    \/ RaiseUnsupportedResize
    \/ RaiseUnsupportedSave
    \/ GenerateGifFrames
    \/ GenerateArt
    \/ LogGenerated
    \/ OpenOutFile
    \/ WriteArt
    \/ LogSaved
    \/ PrintFrame
    \/ SleepFrame
    \/ EndPass
    \/ PrintArt
    \/ Interrupt
    \/ Wrapper

Spec == Init /\ [][Next]_vars

(***************************************************************************)
(* Properties                                                              *)
(***************************************************************************)
\* The calls made so far to one collaborator, in order.
CallsOf(op) == SelectSeq(calls, LAMBDA e : e[1] = op)

Count(op) == Len(CallsOf(op))

\* Position in calls of the first call to op (0 when there is none).
FirstCall(op) ==
    IF Count(op) = 0 THEN 0
    ELSE CHOOSE i \in 1..Len(calls) :
            /\ calls[i][1] = op
            /\ \A j \in 1..(i - 1) : calls[j][1] # op

\* The printer and sleep calls of playback, in order.
PlayCalls == SelectSeq(calls, LAMBDA e : e[1] \in {"printer", "sleep"})

ErrorRecords == SelectSeq(log, LAMBDA r : r[1] = "ERROR")

Ceil(a, b) == (a + b - 1) \div b

\* No art has reached an output sink.
NoOutput == Count("printer") = 0 /\ Count("open") = 0 /\ outFile = NoValue

\* C1: with --gif and any supplied width value (0 included), no frame is
\* converted, no frame is printed and no art output is produced.
C1_NoConversionForAnySuppliedWidth ==
    (arguments.gif /\ arguments.width # NoValue)
        => (Count("generate_gif_frames") = 0 /\ NoOutput)

\* The option checks of the --gif branch have been passed or have raised:
\* decoding and construction succeeded and no interrupt cut the run short.
ChecksDecided ==
    /\ generator
    /\ pc # "convert"
    /\ raised[1] # "KeyboardInterrupt"

SinglePassCall(k) ==
    LET fr == animation[1].frames
    IN  IF k % 2 = 1
          THEN /\ PlayCalls[k][1] = "printer"
               /\ PlayCalls[k][2] = Printer(arguments.mode)
               /\ PlayCalls[k][3] = fr[(k + 1) \div 2]
          ELSE /\ PlayCalls[k][1] = "sleep"
               /\ PlayCalls[k][2] = animation[1].frame_delay

\* C3: without --repeat, playback prints each frame exactly once, in source
\* order, each print followed by one sleep of the shared delay, and main()
\* ends after that single pass.
C3_SinglePassInOrder ==
    (arguments.gif /\ ~arguments.repeat /\ animation # NoValue)
        => /\ Len(PlayCalls) <= 2 * Len(animation[1].frames)
           /\ \A k \in 1..Len(PlayCalls) : SinglePassCall(k)
           /\ (pc = "done" /\ raised = NoError)
                => /\ Len(PlayCalls) = 2 * Len(animation[1].frames)
                   /\ passes = 0

C3_Witness ==
    /\ arguments.gif /\ ~arguments.repeat
    /\ pc = "done" /\ raised = NoError
    /\ animation # NoValue
    /\ Len(animation[1].frames) >= 2
    /\ Count("printer") = Len(animation[1].frames)

ConversionFailures ==
    {"cannot identify image file", "resize failed",
     "generator construction failed", "frame generation failed",
     "art generation failed"}

\* C4: art reaches a sink only after decoding, resizing and generation have
\* all completed; when one of them raises, no output file is created or
\* truncated and nothing is printed.
C4_NoPartialSuccess ==
    /\ ~NoOutput =>
          /\ image # NoValue
          /\ generator
          /\ IF arguments.gif THEN animation # NoValue
             ELSE art # NoValue /\ Count("resize") = 1
    /\ raised[2] \in ConversionFailures => NoOutput

C4_Witness ==
    /\ pc = "done"
    /\ TruthyStr(arguments.out)
    /\ raised[2] = "art generation failed"
    /\ NoOutput

\* C5: after a KeyboardInterrupt the only step left is the wrapper's, which
\* prints no frame, touches no file, logs nothing and returns normally.
C5_InterruptIsCleanStop ==
    [][raised[1] = "KeyboardInterrupt"
          => /\ calls' = calls
             /\ outFile' = outFile
             /\ log' = log
             /\ raised' = raised
             /\ ErrorRecords = <<>>
             /\ pc' = "done"]_vars

C5_Witness ==
    /\ arguments.gif /\ arguments.repeat
    /\ raised[1] = "KeyboardInterrupt"
    /\ pc = "done"
    /\ passes >= 1
    /\ Count("printer") > Len(animation[1].frames)

C7_OneMessagePerFailure ==
    (pc = "done" /\ raised[1] \notin {"none", "KeyboardInterrupt"})
        => /\ Len(ErrorRecords) = 1
           /\ Len(log) >= 1
           /\ CASE raised[1] = "GifUnsupportedResizeError" ->
                     log[Len(log)] = <<"ERROR", "Error! Gif resizing is not supported.">>
                [] raised[1] = "GifUnsupportedSaveError" ->
                     log[Len(log)] = <<"ERROR", "Error! Gif arts saving is not supported.">>
                [] OTHER ->
                     /\ Len(log) >= 2
                     /\ log[Len(log) - 1] = <<"ERROR", "Error! Unexpected exception caught:">>
                     /\ log[Len(log)] = <<"INFO", raised[2]>>

\* C8: with --gif and a width or an output path, the dedicated error is
\* raised before the image is decoded and before the Generator is built.
C8_RejectedBeforeDecoding ==
    (arguments.gif /\ (TruthyInt(arguments.width) \/ TruthyStr(arguments.out)))
        => /\ Count("Image.open") = 0
           /\ Count("Generator") = 0
           /\ pc = "done" => raised[1] \in {"GifUnsupportedResizeError",
                                            "GifUnsupportedSaveError",
                                            "KeyboardInterrupt"}

\* An Art made from a W x H image has ceil(H/4) lines of ceil(W/2) glyphs.
HasCellGrid(a, size) ==
    /\ Len(a) = Ceil(size[2], 4)
    /\ \A r \in 1..Len(a) : Len(a[r]) = Ceil(size[1], 2)

\* C9: the Art returned for a W x H image has exactly ceil(H/4) lines of
\* exactly ceil(W/2) glyphs each, edge cells included.
C9_ArtDimensions ==
    /\ art # NoValue => HasCellGrid(art[1], image[1])
    /\ animation # NoValue =>
          \A k \in 1..Len(animation[1].frames) :
              HasCellGrid(animation[1].frames[k][2], image[1])

C9_Witness ==
    /\ art # NoValue
    /\ image[1][1] % 2 = 1
    /\ image[1][2] % 4 # 0
    /\ image[1][2] > 4
    /\ Len(art[1]) = Ceil(image[1][2], 4)

\* C10: a successful static conversion delivers the art to exactly one sink:
\* written once to the --out file and never printed, or printed once by the
\* mode's printer with no file opened.
C10_ExactlyOneSink ==
    (pc = "done" /\ raised = NoError /\ ~arguments.gif)
        => IF TruthyStr(arguments.out)
             THEN /\ CallsOf("open") = <<<<"open", arguments.out[1]>>>>
                  /\ CallsOf("write") = <<<<"write", art[1]>>>>
                  /\ outFile = <<"written", art[1]>>
                  /\ Count("printer") = 0
             ELSE /\ CallsOf("printer") =
                        <<<<"printer", Printer(arguments.mode), art[1]>>>>
                  /\ Count("open") = 0 /\ Count("write") = 0
                  /\ outFile = NoValue

C10_Witness ==
    /\ pc = "done" /\ raised = NoError /\ ~arguments.gif
    /\ TruthyStr(arguments.out)
    /\ outFile # NoValue
    /\ outFile[1] = "written"
====
